---------------------------- MODULE Spec2Model ----------------------------
(***************************************************************************)
(* A model of download_ribs.py: the RouteViews RIB pipeline.               *)
(*                                                                         *)
(* Python strings are sequences of one-character strings, so that          *)
(* formatting, splitting, parsing and prefix matching are computed         *)
(* character by character.  IPv4 addresses are tuples of four octets       *)
(* (most significant first).                                               *)
(***************************************************************************)
EXTENDS Integers, Sequences, FiniteSets, TLC

VARIABLES
    \* extract_even_ipv4_networks / build_asn_to_even_prefixes / regex match
    network,        \* the CIDR string handed to extract_even_ipv4_networks
    tokens,         \* the strings the generator yields, in order
    even_chunks,    \* the set build_asn_to_even_prefixes collects for the ASN
    probe,          \* an address string matched against the ASN's regex
    matched,        \* whether the end-unanchored regex accepts the probe
    dstage,         \* "input" | "extracted" | "collected" | "matched"
    \* parse_rib_to_dict
    prefixes,       \* mrtx.parse_mrt_file's dict, as a sequence of items
    asn_dict,       \* ASN -> list of prefixes (before sorting, or an input)
    sorted_asn_dict,\* ASN -> sorted list
    pstage,         \* "input" | "parsed"
    \* build_asn_to_regex
    even_asn_dict,  \* ASN -> token set
    asn_regex,      \* what build_asn_to_regex raised, and the ASN -> regex map
    grex_calls,     \* the token lists RegExpBuilder was invoked with
    rstage,         \* "input" | "built"
    \* build_filename
    now,            \* the current UTC time
    url,            \* the URL returned
    loop_iters,     \* iterations of the while loop
    fstage,         \* "input" | "built"
    \* main
    pc,             \* main's position
    tmpdir,         \* whether the temporary directory exists
    rib_file,       \* "absent" | "partial" | "complete"
    chunks,         \* chunks of the response written so far
    downloaded,     \* download_rib_file returned
    parsed,         \* parse_rib_to_dict returned
    rib_at_parse,   \* state of the RIB file when the parse ran
    disk,           \* output artifact -> "absent" | "old" | "partial" | "complete"
    regex_built,    \* build_asn_to_regex returned
    failed          \* "none" or the step that raised

vars == <<network, tokens, even_chunks, probe, matched, dstage,
          prefixes, asn_dict, sorted_asn_dict, pstage,
          even_asn_dict, asn_regex, grex_calls, rstage,
          now, url, loop_iters, fstage,
          pc, tmpdir, rib_file, chunks, downloaded, parsed, rib_at_parse,
          disk, regex_built, failed>>

decompVars == <<network, tokens, even_chunks, probe, matched, dstage>>
parseVars == <<prefixes, sorted_asn_dict, pstage>>
regexVars == <<even_asn_dict, asn_regex, grex_calls, rstage>>
filenameVars == <<now, url, loop_iters, fstage>>
mainVars == <<pc, tmpdir, rib_file, chunks, downloaded, parsed, rib_at_parse,
              disk, regex_built, failed>>

-----------------------------------------------------------------------------
(* Strings *)

Digits == <<"0", "1", "2", "3", "4", "5", "6", "7", "8", "9">>

IsDigit(c) == \E i \in 1..10 : Digits[i] = c

DigitVal(c) == (CHOOSE i \in 1..10 : Digits[i] = c) - 1

Range(s) == {s[i] : i \in 1..Len(s)}

\* str(n) for a non-negative integer
RECURSIVE str_int(_)
str_int(n) == IF n < 10 THEN <<Digits[n + 1]>>
              ELSE str_int(n \div 10) \o <<Digits[(n % 10) + 1]>>

\* int(s) for a string of decimal digits
RECURSIVE int_str(_)
int_str(s) == IF s = <<>> THEN 0
              ELSE 10 * int_str(SubSeq(s, 1, Len(s) - 1)) + DigitVal(s[Len(s)])

\* s.split(sep) for a one-character separator
RECURSIVE split(_, _)
split(s, sep) ==
    IF \A i \in 1..Len(s) : s[i] # sep THEN <<s>>
    ELSE LET i == CHOOSE k \in 1..Len(s) :
                      s[k] = sep /\ \A j \in 1..(k - 1) : s[j] # sep
         IN  <<SubSeq(s, 1, i - 1)>> \o split(SubSeq(s, i + 1, Len(s)), sep)

\* s.partition(sep): <<head, sep, tail>>, or <<s, "", "">> without sep
partition(s, sep) ==
    IF \A i \in 1..Len(s) : s[i] # sep THEN <<s, <<>>, <<>>>>
    ELSE LET i == CHOOSE k \in 1..Len(s) :
                      s[k] = sep /\ \A j \in 1..(k - 1) : s[j] # sep
         IN  <<SubSeq(s, 1, i - 1), <<sep>>, SubSeq(s, i + 1, Len(s))>>

\* s.startswith(t)
startswith(s, t) == Len(t) <= Len(s) /\ SubSeq(s, 1, Len(t)) = t

RECURSIVE Pow2(_)
Pow2(n) == IF n = 0 THEN 1 ELSE 2 * Pow2(n - 1)

-----------------------------------------------------------------------------
(* ipaddress *)

\* str(IPv4Address) and .exploded: the dotted quad
str_addr(a) == str_int(a[1]) \o <<".">> \o str_int(a[2]) \o <<".">>
               \o str_int(a[3]) \o <<".">> \o str_int(a[4])

\* the number of network bits that fall into octet i of a /len prefix
NetBits(len, i) == IF len >= 8 * i THEN 8
                   ELSE IF len <= 8 * (i - 1) THEN 0
                   ELSE len - 8 * (i - 1)

\* address & netmask
MaskAddr(a, len) ==
    [i \in 1..4 |-> (a[i] \div Pow2(8 - NetBits(len, i))) * Pow2(8 - NetBits(len, i))]

\* address | hostmask
broadcast_address(net) ==
    [i \in 1..4 |-> net.network_address[i]
                    + Pow2(8 - NetBits(net.prefixlen, i)) - 1]

\* the address k * 256^(4 - pos) above a, with carry into the higher octets
RECURSIVE AddrAdd(_, _, _)
AddrAdd(a, k, pos) ==
    IF pos = 0 \/ k = 0 THEN a
    ELSE AddrAdd([a EXCEPT ![pos] = (a[pos] + k) % 256],
                 (a[pos] + k) \div 256, pos - 1)

\* ip_network(network, strict=False): host bits are masked off
ip_network(s) ==
    IF \E i \in 1..Len(s) : s[i] = ":"
    THEN [version |-> 6, network_address |-> <<>>, prefixlen |-> 0]
    ELSE LET parts == partition(s, "/")
             octs == split(parts[1], ".")
             len == IF parts[2] = <<>> THEN 32 ELSE int_str(parts[3])
         IN  [version |-> 4,
              network_address |->
                  MaskAddr([i \in 1..4 |-> int_str(octs[i])], len),
              prefixlen |-> len]

\* net.subnets(new_prefix=p) for p a multiple of 8, in address order
subnets(net, new_prefix) ==
    [i \in 1..Pow2(new_prefix - net.prefixlen) |->
        [version |-> 4,
         network_address |-> AddrAdd(net.network_address, i - 1, new_prefix \div 8),
         prefixlen |-> new_prefix]]

\* net.hosts(): every address of a /31, the one address of a /32, and
\* otherwise the addresses strictly between network and broadcast
hosts(net) ==
    IF net.prefixlen = 31
    THEN <<net.network_address, AddrAdd(net.network_address, 1, 4)>>
    ELSE IF net.prefixlen = 32
    THEN <<net.network_address>>
    ELSE [i \in 1..(Pow2(32 - net.prefixlen) - 2) |->
              AddrAdd(net.network_address, i, 4)]


-----------------------------------------------------------------------------
(* extract_even_ipv4_networks, build_asn_to_even_prefixes, build_asn_to_regex *)

\* lines 56-57: one "<o1>." per /8 sub-block
even_8(net) ==
    LET subs == subnets(net, 8)
    IN  [i \in 1..Len(subs) |->
            split(str_addr(subs[i].network_address), ".")[1] \o <<".">>]

\* lines 59-61: one "<o1>.<o2>." per /16 sub-block
even_16(net) ==
    LET subs == subnets(net, 16)
    IN  [i \in 1..Len(subs) |->
            LET octets == split(str_addr(subs[i].network_address), ".")
            IN  octets[1] \o <<".">> \o octets[2] \o <<".">>]

\* a variant of even_24 that takes the prefix's own network address only
even_24_no_subnets(net) ==
    LET octets == split(str_addr(net.network_address), ".")
    IN  <<octets[1] \o <<".">> \o octets[2] \o <<".">> \o octets[3] \o <<".">>>>

\* lines 63-65: one "<o1>.<o2>.<o3>." per /24 sub-block
even_24(net) ==
    LET subs == subnets(net, 24)
    IN  [i \in 1..Len(subs) |->
            LET octets == split(str_addr(subs[i].network_address), ".")
            IN  octets[1] \o <<".">> \o octets[2] \o <<".">>
                \o octets[3] \o <<".">>]

\* a variant of all_ips without the final yield of the broadcast address
all_ips_no_broadcast(net) ==
    LET hs == hosts(net)
    IN  <<str_addr(net.network_address)>> \o [i \in 1..Len(hs) |-> str_addr(hs[i])]

\* lines 69-72: the network address, the hosts, the broadcast address
all_ips(net) ==
    LET hs == hosts(net)
    IN  <<str_addr(net.network_address)>>
        \o [i \in 1..Len(hs) |-> str_addr(hs[i])]
        \o <<str_addr(broadcast_address(net))>>

\* a variant of the generator with strict thresholds (<) instead of <=
extract_even_ipv4_networks_strict(s) ==
    LET net == ip_network(s)
        prefix == net.prefixlen
    IN  IF ~(net.version = 4) THEN <<>>
        ELSE IF prefix < 8 THEN even_8(net)
        ELSE IF prefix < 16 THEN even_16(net)
        ELSE IF prefix < 24 THEN even_24(net)
        ELSE all_ips(net)

\* the generator's yields, in order
extract_even_ipv4_networks(s) ==
    LET net == ip_network(s)
        prefix == net.prefixlen
    IN  IF ~(net.version = 4) THEN <<>>
        ELSE IF prefix <= 8 THEN even_8(net)
        ELSE IF prefix <= 16 THEN even_16(net)
        ELSE IF prefix <= 24 THEN even_24(net)
        ELSE all_ips(net)

\* the set even_asn_dict[asn] grows to: every non-empty chunk of every prefix
ChunksOf(prefix_list) ==
    UNION {{c \in Range(extract_even_ipv4_networks(prefix_list[i])) : c # <<>>}
           : i \in 1..Len(prefix_list)}

\* a variant that touches even_asn_dict[asn] before the inner loops, so the
\* defaultdict creates a key for every ASN
build_asn_to_even_prefixes_eager(d) == [asn \in DOMAIN d |-> ChunksOf(d[asn])]

\* a defaultdict(set): a key exists once something was added under it
build_asn_to_even_prefixes(d) ==
    [asn \in {a \in DOMAIN d : ChunksOf(d[a]) # {}} |-> ChunksOf(d[asn])]

\* RegExpBuilder(test_cases).without_end_anchor().build(): the pattern is
\* start-anchored alternation of the test cases, so it accepts exactly the
\* strings that start with one of them; no test cases is a ValueError
RegExpBuilder(test_cases) ==
    IF test_cases = {} THEN "ValueError" ELSE [starts_with |-> test_cases]

regex_match(regex, s) == \E t \in regex.starts_with : startswith(s, t)

build_asn_to_regex(d) ==
    LET even == build_asn_to_even_prefixes(d)
    IN  [asn \in DOMAIN even |-> RegExpBuilder(even[asn])]

-----------------------------------------------------------------------------
(* Decomposition of one prefix, and matching of one address *)

NumBases == 3

NumOctets == 4

BaseSamples == <<<<192, 168, 1, 1>>, <<10, 10, 1, 192>>, <<1, 1, 168, 10>>,
                 <<203, 0, 113, 255>>, <<255, 255, 255, 255>>>>

OctetSamples == <<1, 10, 192, 168, 0, 255>>

Ipv6Sample == <<"2", "0", "0", "1", ":", "d", "b", "8", ":", ":", "/", "3", "2">>

NetworkInputs ==
    {str_addr(BaseSamples[b]) \o <<"/">> \o str_int(len) :
        b \in 1..NumBases, len \in 0..32} \cup {Ipv6Sample}

ProbeInputs ==
    LET O == {OctetSamples[i] : i \in 1..NumOctets}
    IN  {str_addr(<<a, b, c, d>>) : a \in O, b \in O, c \in O, d \in O}

AsnSamples == {64500, 64501}

SampleAsn == CHOOSE a \in AsnSamples : \A b \in AsnSamples : a <= b

DecompIdle ==
    /\ network = <<>> /\ tokens = <<>> /\ even_chunks = {}
    /\ probe = <<>> /\ matched = FALSE /\ dstage = "idle"

ParseIdle == prefixes = <<>> /\ sorted_asn_dict = <<>> /\ pstage = "idle"

RegexIdle ==
    /\ even_asn_dict = <<>> /\ asn_regex = <<>> /\ grex_calls = {}
    /\ rstage = "idle"

FilenameIdle == now = <<>> /\ url = <<>> /\ loop_iters = 0 /\ fstage = "idle"

MainIdle ==
    /\ pc = "idle" /\ tmpdir = FALSE /\ rib_file = "absent" /\ chunks = 0
    /\ downloaded = FALSE /\ parsed = FALSE /\ rib_at_parse = "none"
    /\ disk = <<>> /\ regex_built = FALSE /\ failed = "none"

DecompInit ==
    /\ network \in NetworkInputs
    /\ tokens = <<>> /\ even_chunks = {} /\ probe = <<>> /\ matched = FALSE
    /\ dstage = "input"
    /\ asn_dict = <<>>
    /\ ParseIdle /\ RegexIdle /\ FilenameIdle /\ MainIdle

\* drain the generator
Extract ==
    /\ dstage = "input"
    /\ tokens' = extract_even_ipv4_networks(network)
    /\ dstage' = "extracted"
    /\ UNCHANGED <<network, even_chunks, probe, matched, asn_dict>>
    /\ UNCHANGED <<parseVars, regexVars, filenameVars, mainVars>>

\* build_asn_to_even_prefixes on {SampleAsn: [network]}
Collect ==
    /\ dstage = "extracted"
    /\ asn_dict' = (SampleAsn :> <<network>>)
    /\ LET even == build_asn_to_even_prefixes(asn_dict')
       IN  even_chunks' = IF SampleAsn \in DOMAIN even THEN even[SampleAsn] ELSE {}
    /\ dstage' = "collected"
    /\ UNCHANGED <<network, tokens, probe, matched>>
    /\ UNCHANGED <<parseVars, regexVars, filenameVars, mainVars>>

\* a consumer matches an address against the ASN's regex
Match ==
    /\ dstage = "collected"
    /\ SampleAsn \in DOMAIN build_asn_to_regex(asn_dict)
    /\ \E a \in ProbeInputs :
          /\ probe' = a
          /\ matched' = regex_match(RegExpBuilder(even_chunks), a)
    /\ dstage' = "matched"
    /\ UNCHANGED <<network, tokens, even_chunks, asn_dict>>
    /\ UNCHANGED <<parseVars, regexVars, filenameVars, mainVars>>

DecompNext == Extract \/ Collect \/ Match

SpecDecomp == DecompInit /\ [][DecompNext]_vars


-----------------------------------------------------------------------------
(* Properties of the decomposition *)

\* the address a CIDR or address string names, host bits included
AddrOf(s) ==
    LET octs == split(partition(s, "/")[1], ".")
    IN  [i \in 1..4 |-> int_str(octs[i])]

LenOf(s) == int_str(partition(s, "/")[3])

IsIPv4Text(s) == \A i \in 1..Len(s) : s[i] # ":"

\* bit i (1 = most significant) of a 32-bit address
Bit(a, i) == (a[((i - 1) \div 8) + 1] \div Pow2(7 - ((i - 1) % 8))) % 2

\* address a lies in the block base/len: they agree on the first len bits
InBlock(a, base, len) == \A i \in 1..len : Bit(a, i) = Bit(base, i)

Extracted == dstage = "extracted" /\ IsIPv4Text(network)

NoDuplicates(seq) == \A i, j \in 1..Len(seq) : seq[i] = seq[j] => i = j

\* C1: an address the ASN's regex accepts (some emitted token is a string
\* prefix of it) lies inside the prefix the tokens were emitted for
C1_NoFalsePositives ==
    (dstage = "matched" /\ matched)
        => InBlock(AddrOf(probe), AddrOf(network), LenOf(network))

\* C2: for a prefix of length 0..24, every address inside the prefix starts
\* with one of the emitted tokens
C2_Coverage ==
    (dstage = "matched" /\ LenOf(network) <= 24
        /\ InBlock(AddrOf(probe), AddrOf(network), LenOf(network)))
        => /\ \E i \in 1..Len(tokens) : startswith(probe, tokens[i])
           /\ matched

C2_Witness ==
    /\ dstage = "matched" /\ LenOf(network) = 20
    /\ AddrOf(network) # ip_network(network).network_address
    /\ InBlock(AddrOf(probe), AddrOf(network), LenOf(network))
    /\ ~startswith(probe, tokens[1])
    /\ matched

\* C3: for a prefix of length 25..32 the collected token set is exactly the
\* dotted quads of the block's 2^(32-len) addresses, network and broadcast
\* address included
C3_FullAddresses ==
    (dstage = "collected" /\ IsIPv4Text(network) /\ LenOf(network) >= 25)
        => LET base == AddrOf(network)
               len == LenOf(network)
               last == {o \in 0..255 :
                           InBlock(<<base[1], base[2], base[3], o>>, base, len)}
               lo == CHOOSE o \in last : \A x \in last : o <= x
               hi == CHOOSE o \in last : \A x \in last : o >= x
           IN  /\ Cardinality(even_chunks) = Pow2(32 - len)
               /\ even_chunks =
                     {str_addr(<<base[1], base[2], base[3], o>>) : o \in last}
               /\ str_addr(<<base[1], base[2], base[3], lo>>) \in even_chunks
               /\ str_addr(<<base[1], base[2], base[3], hi>>) \in even_chunks

C3_Witness ==
    /\ dstage = "collected" /\ IsIPv4Text(network) /\ LenOf(network) = 31
    /\ Len(tokens) = 4 /\ Cardinality(even_chunks) = 2

\* C8: the tokens of a prefix of length <= 8, <= 16, <= 24 are the one-,
\* two-, three-octet strings of its /8, /16, /24 sub-blocks, each once
C8_Buckets ==
    (Extracted /\ LenOf(network) <= 24)
        => LET base == AddrOf(network)
               len == LenOf(network)
               dot == <<".">>
           IN  /\ NoDuplicates(tokens)
               /\ len <= 8 =>
                    /\ Len(tokens) = Pow2(8 - len)
                    /\ Range(tokens) =
                         {str_int(o) \o dot :
                            o \in {x \in 0..255 : InBlock(<<x, 0, 0, 0>>, base, len)}}
               /\ (9 <= len /\ len <= 16) =>
                    /\ Len(tokens) = Pow2(16 - len)
                    /\ Range(tokens) =
                         {str_int(base[1]) \o dot \o str_int(o) \o dot :
                            o \in {x \in 0..255 :
                                     InBlock(<<base[1], x, 0, 0>>, base, len)}}
               /\ (17 <= len /\ len <= 24) =>
                    /\ Len(tokens) = Pow2(24 - len)
                    /\ Range(tokens) =
                         {str_int(base[1]) \o dot \o str_int(base[2]) \o dot
                            \o str_int(o) \o dot :
                            o \in {x \in 0..255 :
                                     InBlock(<<base[1], base[2], x, 0>>, base, len)}}

C8_Witness ==
    /\ dstage = "extracted" /\ IsIPv4Text(network) /\ LenOf(network) = 20
    /\ Len(tokens) = 16
    /\ \A i \in 1..Len(tokens) : Len(split(tokens[i], ".")) = 4


-----------------------------------------------------------------------------
(* build_asn_to_regex on an ASN-prefix map *)

MaxPrefixes == 2

Cidr(a, b, c, d, len) == str_addr(<<a, b, c, d>>) \o <<"/">> \o str_int(len)

Ipv6Other == <<"2", "a", "0", "0", ":", ":", "/", "1", "2">>

RegexPool == {Cidr(10, 0, 0, 0, 8), Cidr(192, 168, 1, 0, 30), Ipv6Sample, Ipv6Other}

\* the lists of at most n prefixes over a pool
ListsOver(pool, n) == UNION {[1..k -> pool] : k \in 0..n}

\* the maps from some of the ASNs to a prefix list
MapsOver(asns, lists) == UNION {[dom -> lists] : dom \in SUBSET asns}

RegexInit ==
    /\ asn_dict \in MapsOver(AsnSamples, ListsOver(RegexPool, MaxPrefixes))
    /\ even_asn_dict = <<>> /\ asn_regex = <<>> /\ grex_calls = {}
    /\ rstage = "input"
    /\ DecompIdle /\ ParseIdle /\ FilenameIdle /\ MainIdle

\* build_asn_to_regex(asn_dict); a ValueError of the builder propagates
BuildRegex ==
    /\ rstage = "input"
    /\ even_asn_dict' = build_asn_to_even_prefixes(asn_dict)
    /\ grex_calls' = {even_asn_dict'[asn] : asn \in DOMAIN even_asn_dict'}
    /\ asn_regex' = IF {} \in grex_calls'
                    THEN [raised |-> "ValueError", map |-> <<>>]
                    ELSE [raised |-> "none", map |-> build_asn_to_regex(asn_dict)]
    /\ rstage' = "built"
    /\ UNCHANGED <<asn_dict, decompVars, parseVars, filenameVars, mainVars>>

RegexNext == BuildRegex

SpecRegex == RegexInit /\ [][RegexNext]_vars

\* C7: the keys of the regex map are exactly the ASNs with at least one IPv4
\* prefix, and the regex builder is never given an empty token set
C7_RegexKeys ==
    rstage = "built"
        => /\ asn_regex.raised = "none"
           /\ {} \notin grex_calls
           /\ DOMAIN asn_regex.map =
                 {a \in DOMAIN asn_dict :
                     \E i \in 1..Len(asn_dict[a]) : IsIPv4Text(asn_dict[a][i])}
           /\ \A a \in DOMAIN asn_regex.map : asn_regex.map[a].starts_with # {}

C7_Witness ==
    /\ rstage = "built"
    /\ 64500 \in DOMAIN asn_dict /\ 64501 \in DOMAIN asn_dict
    /\ Len(asn_dict[64500]) = 2
    /\ \A i \in 1..2 : ~IsIPv4Text(asn_dict[64500][i])
    /\ Len(asn_dict[64501]) = 2
    /\ IsIPv4Text(asn_dict[64501][1]) /\ ~IsIPv4Text(asn_dict[64501][2])
    /\ DOMAIN asn_regex.map = {64501}


-----------------------------------------------------------------------------
(* ip_sort_key and parse_rib_to_dict *)

HexLetters == <<"a", "b", "c", "d", "e", "f">>

\* ord(c) for the characters of IPv4 and IPv6 prefixes
ord(c) ==
    IF IsDigit(c) THEN 48 + DigitVal(c)
    ELSE IF c = "." THEN 46
    ELSE IF c = "/" THEN 47
    ELSE IF c = ":" THEN 58
    ELSE 96 + (CHOOSE i \in 1..6 : HexLetters[i] = c)

\* x < y for Python strings: by code point, a proper prefix first
RECURSIVE str_lt(_, _)
str_lt(x, y) ==
    IF y = <<>> THEN FALSE
    ELSE IF x = <<>> THEN TRUE
    ELSE IF ord(Head(x)) # ord(Head(y)) THEN ord(Head(x)) < ord(Head(y))
    ELSE str_lt(Tail(x), Tail(y))

\* x < y for Python tuples of integers
RECURSIVE tuple_lt(_, _)
tuple_lt(x, y) ==
    IF y = <<>> THEN FALSE
    ELSE IF x = <<>> THEN TRUE
    ELSE IF Head(x) # Head(y) THEN Head(x) < Head(y)
    ELSE tuple_lt(Tail(x), Tail(y))

\* whether packaging accepts s as a version: for strings made of the
\* characters above, exactly the dot-separated groups of digits
ValidVersion(s) ==
    /\ \A i \in 1..Len(s) : IsDigit(s[i]) \/ s[i] = "."
    /\ \A i \in 1..Len(split(s, ".")) : split(s, ".")[i] # <<>>

\* Version(s).release
Release(s) == LET comps == split(s, ".") IN [i \in 1..Len(comps) |-> int_str(comps[i])]

\* the release as Version compares it: trailing zeros dropped
RECURSIVE StripZeros(_)
StripZeros(r) ==
    IF r # <<>> /\ r[Len(r)] = 0 THEN StripZeros(SubSeq(r, 1, Len(r) - 1)) ELSE r

\* a variant of ip_sort_key that always takes the lexicographic fallback
ip_sort_key_lexicographic(ip) == [tag |-> 1, version |-> <<>>, text |-> ip]

\* (0, Version(address)) for an IPv4 prefix, (1, ip) otherwise
ip_sort_key(ip) ==
    LET head == partition(ip, "/")[1]
    IN  IF ValidVersion(head)
        THEN [tag |-> 0, version |-> StripZeros(Release(head)), text |-> <<>>]
        ELSE [tag |-> 1, version |-> <<>>, text |-> ip]

\* k1 < k2 for two sort keys (Python tuple comparison)
key_lt(k1, k2) ==
    IF k1.tag # k2.tag THEN k1.tag < k2.tag
    ELSE IF k1.tag = 0 THEN tuple_lt(k1.version, k2.version)
    ELSE str_lt(k1.text, k2.text)

\* sorted(list, key=ip_sort_key): stable, so an element goes behind the
\* earlier elements that are not greater
RECURSIVE sorted(_)
sorted(list) ==
    IF list = <<>> THEN <<>>
    ELSE LET x == list[Len(list)]
             front == sorted(SubSeq(list, 1, Len(list) - 1))
             NotAfter(e) == ~key_lt(ip_sort_key(x), ip_sort_key(e))
             After(e) == key_lt(ip_sort_key(x), ip_sort_key(e))
         IN  SelectSeq(front, NotAfter) \o <<x>> \o SelectSeq(front, After)

\* the origin ASNs of one item of mrtx's dict: the members of a set, or
\* the single ASN
OriginsOf(item) ==
    IF item.asn.kind = "set" THEN item.asn.members ELSE {item.asn.value}

\* a variant of the loop body that files a prefix under one member of an
\* AS_SET only
append_prefix_one_member(d, item) ==
    LET one == IF item.asn.kind = "set"
               THEN {CHOOSE m \in item.asn.members :
                        \A x \in item.asn.members : m <= x}
               ELSE {item.asn.value}
    IN  [a \in DOMAIN d \cup one |->
            IF a \in one
            THEN (IF a \in DOMAIN d THEN d[a] ELSE <<>>) \o <<item.prefix>>
            ELSE d[a]]

\* lines 117-121: asn_dict[int(asn)].append(prefix) for every origin
append_prefix(d, item) ==
    [a \in DOMAIN d \cup OriginsOf(item) |->
        IF a \in OriginsOf(item)
        THEN (IF a \in DOMAIN d THEN d[a] ELSE <<>>) \o <<item.prefix>>
        ELSE d[a]]

\* lines 115-121: the loop over prefixes.items(), from an empty defaultdict
RECURSIVE collect(_, _)
collect(items, d) ==
    IF items = <<>> THEN d
    ELSE collect(Tail(items), append_prefix(d, Head(items)))

\* lines 125-127
sort_lists(d) == [asn \in DOMAIN d |-> sorted(d[asn])]

MaxItems == 3

NumPool == 5

PrefixPool == <<Cidr(10, 10, 0, 0, 24), Cidr(10, 2, 0, 0, 24),
                Cidr(10, 2, 0, 0, 16), Ipv6Sample, Ipv6Other,
                Cidr(10, 0, 0, 0, 8), Cidr(9, 255, 255, 0, 24)>>

OriginSamples ==
    {[kind |-> "int", value |-> 64500, members |-> {}],
     [kind |-> "int", value |-> 64501, members |-> {}],
     [kind |-> "set", value |-> 0, members |-> {64500, 64501}]}

\* the dicts mrtx.parse_mrt_file can return: distinct prefixes, in any order
DictInputs ==
    LET Items == [prefix : {PrefixPool[i] : i \in 1..NumPool}, asn : OriginSamples]
    IN  UNION {{d \in [1..k -> Items] :
                  \A i, j \in 1..k : d[i].prefix = d[j].prefix => i = j}
               : k \in 0..MaxItems}

ParseInit ==
    /\ prefixes \in DictInputs
    /\ asn_dict = <<>> /\ sorted_asn_dict = <<>> /\ pstage = "input"
    /\ DecompIdle /\ RegexIdle /\ FilenameIdle /\ MainIdle

\* parse_rib_to_dict, after mrtx.parse_mrt_file returned prefixes
Parse ==
    /\ pstage = "input"
    /\ asn_dict' = collect(prefixes, <<>>)
    /\ sorted_asn_dict' = sort_lists(asn_dict')
    /\ pstage' = "parsed"
    /\ UNCHANGED <<prefixes, decompVars, regexVars, filenameVars, mainVars>>

ParseNext == Parse

SpecParse == ParseInit /\ [][ParseNext]_vars

\* p sorts strictly before q: IPv4 before IPv6, IPv4 by the four octets of
\* the network address compared numerically, IPv6 by the characters
OctetsBefore(x, y) ==
    \E i \in 1..4 : x[i] < y[i] /\ \A j \in 1..(i - 1) : x[j] = y[j]

TextBefore(x, y) ==
    \/ Len(x) < Len(y) /\ SubSeq(y, 1, Len(x)) = x
    \/ \E i \in 1..Len(x) :
          /\ i <= Len(y) /\ ord(x[i]) < ord(y[i])
          /\ \A j \in 1..(i - 1) : x[j] = y[j]

Before(p, q) ==
    IF IsIPv4Text(p) /\ IsIPv4Text(q) THEN OctetsBefore(AddrOf(p), AddrOf(q))
    ELSE IF IsIPv4Text(p) # IsIPv4Text(q) THEN IsIPv4Text(p)
    ELSE TextBefore(p, q)

Count(seq, x) == Cardinality({i \in 1..Len(seq) : seq[i] = x})

IndexIn(seq, x) == CHOOSE i \in 1..Len(seq) : seq[i] = x

\* C4: every sorted list is a permutation of the list collected for the ASN,
\* is non-decreasing in the order above, and keeps prefixes that compare
\* equal in their original relative order
C4_SortedLists ==
    pstage = "parsed"
        => /\ DOMAIN sorted_asn_dict = DOMAIN asn_dict
           /\ \A a \in DOMAIN sorted_asn_dict :
                LET out == sorted_asn_dict[a]
                    in == asn_dict[a]
                IN  /\ Len(out) = Len(in)
                    /\ \A x \in Range(in) \cup Range(out) :
                          Count(out, x) = Count(in, x)
                    /\ \A i, j \in 1..Len(out) :
                          i < j =>
                            /\ ~Before(out[j], out[i])
                            /\ ~Before(out[i], out[j])
                                 => IndexIn(in, out[i]) < IndexIn(in, out[j])

C4_Witness ==
    /\ pstage = "parsed"
    /\ 64500 \in DOMAIN sorted_asn_dict
    /\ asn_dict[64500] = <<Cidr(10, 10, 0, 0, 24), Cidr(10, 2, 0, 0, 24),
                           Cidr(10, 2, 0, 0, 16)>>
    /\ sorted_asn_dict[64500] = <<Cidr(10, 2, 0, 0, 24), Cidr(10, 2, 0, 0, 16),
                                  Cidr(10, 10, 0, 0, 24)>>

\* C6: a prefix occurs in an ASN's list once if the ASN is its origin or a
\* member of its origin AS_SET and not at all otherwise; no list is empty
C6_InverseMap ==
    pstage = "parsed"
        => /\ \A a \in DOMAIN sorted_asn_dict : sorted_asn_dict[a] # <<>>
           /\ \A a \in AsnSamples, i \in 1..NumPool :
                LET p == PrefixPool[i]
                    IsOrigin ==
                        \E k \in 1..Len(prefixes) :
                            /\ prefixes[k].prefix = p
                            /\ \/ prefixes[k].asn.kind = "int"
                                  /\ prefixes[k].asn.value = a
                               \/ prefixes[k].asn.kind = "set"
                                  /\ a \in prefixes[k].asn.members
                    Occurrences ==
                        IF a \in DOMAIN sorted_asn_dict
                        THEN Count(sorted_asn_dict[a], p) ELSE 0
                IN  Occurrences = IF IsOrigin THEN 1 ELSE 0

C6_Witness ==
    /\ pstage = "parsed"
    /\ Len(prefixes) = 2
    /\ prefixes[1].asn.kind = "set" /\ prefixes[2].asn.kind = "int"
    /\ prefixes[2].asn.value = 64501
    /\ DOMAIN sorted_asn_dict = {64500, 64501}
    /\ Len(sorted_asn_dict[64500]) = 1 /\ Len(sorted_asn_dict[64501]) = 2


-----------------------------------------------------------------------------
(* build_filename *)

IsLeap(y) == (y % 4 = 0 /\ y % 100 # 0) \/ y % 400 = 0

DaysInMonth(y, m) ==
    IF m = 2 THEN (IF IsLeap(y) THEN 29 ELSE 28)
    ELSE IF m \in {4, 6, 9, 11} THEN 30 ELSE 31

\* a variant of the step that adds the hour instead of subtracting it
plus_one_hour(dt) ==
    IF dt.hour < 23 THEN [dt EXCEPT !.hour = dt.hour + 1]
    ELSE IF dt.day < DaysInMonth(dt.year, dt.month)
    THEN [dt EXCEPT !.hour = 0, !.day = dt.day + 1]
    ELSE IF dt.month < 12
    THEN [dt EXCEPT !.hour = 0, !.day = 1, !.month = dt.month + 1]
    ELSE [dt EXCEPT !.hour = 0, !.day = 1, !.month = 1, !.year = dt.year + 1]

\* now - datetime.timedelta(hours=1), borrowing from the day, month and year
minus_one_hour(dt) ==
    IF dt.hour > 0 THEN [dt EXCEPT !.hour = dt.hour - 1]
    ELSE IF dt.day > 1 THEN [dt EXCEPT !.hour = 23, !.day = dt.day - 1]
    ELSE IF dt.month > 1
    THEN [dt EXCEPT !.hour = 23, !.month = dt.month - 1,
                    !.day = DaysInMonth(dt.year, dt.month - 1)]
    ELSE [dt EXCEPT !.hour = 23, !.month = 12, !.day = 31, !.year = dt.year - 1]

\* the while loop: the time it ends with and the iterations it took
RECURSIVE last_even_hour(_, _)
last_even_hour(dt, n) ==
    IF dt.hour % 2 # 0 THEN last_even_hour(minus_one_hour(dt), n + 1)
    ELSE [time |-> dt, iterations |-> n]

\* %m, %d, %H: two digits, zero-padded
pad2(n) == IF n < 10 THEN <<"0">> \o str_int(n) ELSE str_int(n)

UrlHead == <<"h", "t", "t", "p", "s", ":", "/", "/", "r", "o", "u", "t", "e",
             "v", "i", "e", "w", "s", ".", "o", "r", "g", "/", "b", "g", "p",
             "d", "a", "t", "a", "/">>

\* now.strftime("https://routeviews.org/bgpdata/%Y.%m/RIBS/rib.%Y%m%d.%H00.bz2")
strftime(dt) ==
    UrlHead \o str_int(dt.year) \o <<".">> \o pad2(dt.month)
    \o <<"/", "R", "I", "B", "S", "/", "r", "i", "b", ".">>
    \o str_int(dt.year) \o pad2(dt.month) \o pad2(dt.day) \o <<".">>
    \o pad2(dt.hour) \o <<"0", "0", ".", "b", "z", "2">>

build_filename(t) == strftime(last_even_hour(t, 0).time)

SampleYears == {2023, 2024}

SampleMinutes == {0, 59}

\* the UTC times the clock can show: in every month the first, the second
\* and the last day, at every hour
TimeInputs ==
    {t \in [year : SampleYears, month : 1..12, day : 1..31, hour : 0..23,
            minute : SampleMinutes] :
        t.day \in {1, 2, DaysInMonth(t.year, t.month)}}

FilenameInit ==
    /\ now \in TimeInputs
    /\ url = <<>> /\ loop_iters = 0 /\ fstage = "input"
    /\ asn_dict = <<>>
    /\ DecompIdle /\ ParseIdle /\ RegexIdle /\ MainIdle

BuildFilename ==
    /\ fstage = "input"
    /\ url' = build_filename(now)
    /\ loop_iters' = last_even_hour(now, 0).iterations
    /\ fstage' = "built"
    /\ UNCHANGED <<now, asn_dict, decompVars, parseVars, regexVars, mainVars>>

FilenameNext == BuildFilename

SpecFilename == FilenameInit /\ [][FilenameNext]_vars

\* the numeric fields of a URL, read at their positions
UrlFields(u) ==
    [year |-> int_str(SubSeq(u, 32, 35)), month |-> int_str(SubSeq(u, 37, 38)),
     year2 |-> int_str(SubSeq(u, 49, 52)), month2 |-> int_str(SubSeq(u, 53, 54)),
     day |-> int_str(SubSeq(u, 55, 56)), hour |-> int_str(SubSeq(u, 58, 59))]

\* C9: the loop takes at most one iteration, and the URL carries the current
\* UTC date and the most recent even hour: the current hour when even, one
\* less when odd
C9_LastEvenHour ==
    fstage = "built"
        => LET f == UrlFields(url)
           IN  /\ loop_iters <= 1
               /\ Len(url) = 65
               /\ f.hour % 2 = 0
               /\ f.hour = IF now.hour % 2 = 0 THEN now.hour ELSE now.hour - 1
               /\ f.year = now.year /\ f.year2 = now.year
               /\ f.month = now.month /\ f.month2 = now.month
               /\ f.day = now.day

C9_Witness ==
    /\ fstage = "built" /\ now.hour = 1 /\ now.day = 1 /\ now.month = 1
    /\ loop_iters = 1 /\ UrlFields(url).hour = 0 /\ UrlFields(url).day = 1


-----------------------------------------------------------------------------
(* main *)

MaxChunks == 2

JsonPath == "routeviews_asn_prefixes.json"

ZstdPath == "routeviews_asn_prefixes.json.zstd"

GrexPath == "routeviews_asn_grex.json.zstd"

OutputPaths == {JsonPath, ZstdPath, GrexPath}

\* the clock at the start of a run: an even hour and an odd one
MainTimes ==
    {[year |-> 2024, month |-> 3, day |-> 1, hour |-> h, minute |-> 0] : h \in {0, 23}}

MainDicts == {d \in DictInputs : Len(d) <= 1}

MainInit ==
    /\ pc = "start"
    /\ now \in MainTimes /\ url = <<>> /\ loop_iters = 0 /\ fstage = "idle"
    \* each artifact may be left over from an earlier run
    /\ disk \in [OutputPaths -> {"absent", "old"}]
    /\ tmpdir = FALSE /\ rib_file = "absent" /\ chunks = 0
    /\ downloaded = FALSE /\ parsed = FALSE /\ rib_at_parse = "none"
    /\ regex_built = FALSE /\ failed = "none"
    /\ prefixes = <<>> /\ asn_dict = <<>> /\ sorted_asn_dict = <<>>
    /\ pstage = "idle"
    /\ DecompIdle /\ RegexIdle

\* line 133
BuildUrl ==
    /\ pc = "start"
    /\ url' = build_filename(now)
    /\ loop_iters' = last_even_hour(now, 0).iterations
    /\ pc' = "mkdtemp"
    /\ UNCHANGED <<now, fstage, tmpdir, rib_file, chunks, downloaded, parsed,
                   rib_at_parse, disk, regex_built, failed, prefixes, asn_dict,
                   sorted_asn_dict, pstage, regexVars, decompVars>>

\* line 136: with tempfile.TemporaryDirectory() as tmpdir
EnterTmpdir ==
    /\ pc = "mkdtemp"
    /\ tmpdir' = TRUE
    /\ pc' = "request"
    /\ UNCHANGED <<filenameVars, rib_file, chunks, downloaded, parsed,
                   rib_at_parse, disk, regex_built, failed, prefixes, asn_dict,
                   sorted_asn_dict, pstage, regexVars, decompVars>>

\* lines 100-102: the GET is answered with a success status
RequestOk ==
    /\ pc = "request"
    /\ pc' = "open_rib"
    /\ UNCHANGED <<filenameVars, tmpdir, rib_file, chunks, downloaded, parsed,
                   rib_at_parse, disk, regex_built, failed, prefixes, asn_dict,
                   sorted_asn_dict, pstage, regexVars, decompVars>>

\* lines 100-102: the request fails or raise_for_status raises
RequestFail ==
    /\ pc = "request"
    /\ failed' = "download"
    /\ pc' = "exit_tmpdir"
    /\ UNCHANGED <<filenameVars, tmpdir, rib_file, chunks, downloaded, parsed,
                   rib_at_parse, disk, regex_built, prefixes, asn_dict,
                   sorted_asn_dict, pstage, regexVars, decompVars>>

\* line 103: open(output_path, "wb")
OpenRib ==
    /\ pc = "open_rib"
    /\ tmpdir
    /\ rib_file' = "partial"
    /\ pc' = "stream"
    /\ UNCHANGED <<filenameVars, tmpdir, chunks, downloaded, parsed,
                   rib_at_parse, disk, regex_built, failed, prefixes, asn_dict,
                   sorted_asn_dict, pstage, regexVars, decompVars>>

\* lines 104-105: one chunk of the body is written
WriteChunk ==
    /\ pc = "stream"
    /\ chunks < MaxChunks
    /\ chunks' = chunks + 1
    /\ UNCHANGED <<pc, filenameVars, tmpdir, rib_file, downloaded, parsed,
                   rib_at_parse, disk, regex_built, failed, prefixes, asn_dict,
                   sorted_asn_dict, pstage, regexVars, decompVars>>

\* a variant of StreamError in which the exception is swallowed and main
\* goes on to the parse
StreamErrorSwallowed ==
    /\ pc = "stream"
    /\ pc' = "parse"
    /\ UNCHANGED <<filenameVars, tmpdir, rib_file, chunks, downloaded, parsed,
                   rib_at_parse, disk, regex_built, failed, prefixes, asn_dict,
                   sorted_asn_dict, pstage, regexVars, decompVars>>

\* lines 104-105: the connection breaks in the middle of the body
StreamError ==
    /\ pc = "stream"
    /\ failed' = "download"
    /\ pc' = "exit_tmpdir"
    /\ UNCHANGED <<filenameVars, tmpdir, rib_file, chunks, downloaded, parsed,
                   rib_at_parse, disk, regex_built, prefixes, asn_dict,
                   sorted_asn_dict, pstage, regexVars, decompVars>>

\* lines 103-105: the body ends and the with block closes the RIB file
EndOfStream ==
    /\ pc = "stream"
    /\ rib_file' = "complete"
    /\ pc' = "close_stream"
    /\ UNCHANGED <<filenameVars, tmpdir, chunks, downloaded, parsed,
                   rib_at_parse, disk, regex_built, failed, prefixes, asn_dict,
                   sorted_asn_dict, pstage, regexVars, decompVars>>

\* line 101: the exit of async with client.stream(...) is awaited
CloseStreamOk ==
    /\ pc = "close_stream"
    /\ pc' = "close_client"
    /\ UNCHANGED <<filenameVars, tmpdir, rib_file, chunks, downloaded, parsed,
                   rib_at_parse, disk, regex_built, failed, prefixes, asn_dict,
                   sorted_asn_dict, pstage, regexVars, decompVars>>

\* line 101: closing the response raises; the RIB file is already complete
CloseStreamFail ==
    /\ pc = "close_stream"
    /\ failed' = "download"
    /\ pc' = "exit_tmpdir"
    /\ UNCHANGED <<filenameVars, tmpdir, rib_file, chunks, downloaded, parsed,
                   rib_at_parse, disk, regex_built, prefixes, asn_dict,
                   sorted_asn_dict, pstage, regexVars, decompVars>>

\* lines 100, 106: the exit of async with httpx.AsyncClient(...) is awaited
\* and download_rib_file returns
CloseClientOk ==
    /\ pc = "close_client"
    /\ downloaded' = TRUE
    /\ pc' = "parse"
    /\ UNCHANGED <<filenameVars, tmpdir, rib_file, chunks, parsed,
                   rib_at_parse, disk, regex_built, failed, prefixes, asn_dict,
                   sorted_asn_dict, pstage, regexVars, decompVars>>

\* line 100: closing the client (its transport) raises
CloseClientFail ==
    /\ pc = "close_client"
    /\ failed' = "download"
    /\ pc' = "exit_tmpdir"
    /\ UNCHANGED <<filenameVars, tmpdir, rib_file, chunks, downloaded, parsed,
                   rib_at_parse, disk, regex_built, prefixes, asn_dict,
                   sorted_asn_dict, pstage, regexVars, decompVars>>

\* line 141: parse_rib_to_dict(rib_path) returns the sorted map
ParseOk ==
    /\ pc = "parse"
    /\ rib_at_parse' = rib_file
    /\ prefixes' \in MainDicts
    /\ asn_dict' = collect(prefixes', <<>>)
    /\ sorted_asn_dict' = sort_lists(asn_dict')
    /\ parsed' = TRUE
    /\ pc' = "exit_tmpdir"
    /\ UNCHANGED <<filenameVars, tmpdir, rib_file, chunks, downloaded, disk,
                   regex_built, failed, pstage, regexVars, decompVars>>

\* line 141: mrtx.parse_mrt_file raises
ParseFail ==
    /\ pc = "parse"
    /\ rib_at_parse' = rib_file
    /\ failed' = "parse"
    /\ pc' = "exit_tmpdir"
    /\ UNCHANGED <<filenameVars, tmpdir, rib_file, chunks, downloaded, parsed,
                   disk, regex_built, prefixes, asn_dict, sorted_asn_dict,
                   pstage, regexVars, decompVars>>

\* line 136: the with block is left, by return or by exception; the
\* directory and the RIB file in it are removed
ExitTmpdir ==
    /\ pc = "exit_tmpdir"
    /\ tmpdir' = FALSE
    /\ rib_file' = "absent"
    /\ pc' = IF failed = "none" THEN "write_json" ELSE "done"
    /\ UNCHANGED <<filenameVars, chunks, downloaded, parsed, rib_at_parse,
                   disk, regex_built, failed, prefixes, asn_dict,
                   sorted_asn_dict, pstage, regexVars, decompVars>>

\* open(path, "wb") raises: the file is left as it was
OpenFails(at, step) ==
    /\ pc = at
    /\ failed' = step
    /\ pc' = "done"
    /\ UNCHANGED disk

\* open(path, "wb") creates or truncates the file, then the write raises
WriteFails(at, path, step) ==
    /\ pc = at
    /\ disk' = [disk EXCEPT ![path] = "partial"]
    /\ failed' = step
    /\ pc' = "done"

\* the file is opened, written and closed
WriteOk(at, path, next) ==
    /\ pc = at
    /\ disk' = [disk EXCEPT ![path] = "complete"]
    /\ pc' = next
    /\ UNCHANGED failed

mainRest == <<filenameVars, tmpdir, rib_file, chunks, downloaded, parsed,
              rib_at_parse, prefixes, asn_dict, sorted_asn_dict, pstage,
              regex_built, regexVars, decompVars>>

\* lines 144-154: the plain prefix artifact
WriteJsonOk ==
    WriteOk("write_json", JsonPath, "write_zstd") /\ UNCHANGED mainRest

WriteJsonOpenFails ==
    OpenFails("write_json", "write_json") /\ UNCHANGED mainRest

WriteJsonWriteFails ==
    WriteFails("write_json", JsonPath, "write_json") /\ UNCHANGED mainRest

\* lines 159-170: the compressed prefix artifact
WriteZstdOk ==
    WriteOk("write_zstd", ZstdPath, "build_regex") /\ UNCHANGED mainRest

WriteZstdOpenFails ==
    OpenFails("write_zstd", "write_zstd") /\ UNCHANGED mainRest

WriteZstdWriteFails ==
    WriteFails("write_zstd", ZstdPath, "write_zstd") /\ UNCHANGED mainRest

\* line 176: build_asn_to_regex(asn_dict) returns
BuildRegexOk ==
    /\ pc = "build_regex"
    /\ even_asn_dict' = build_asn_to_even_prefixes(sorted_asn_dict)
    /\ grex_calls' = {even_asn_dict'[asn] : asn \in DOMAIN even_asn_dict'}
    /\ {} \notin grex_calls'
    /\ asn_regex' = [raised |-> "none", map |-> build_asn_to_regex(sorted_asn_dict)]
    /\ regex_built' = TRUE
    /\ pc' = "write_regex"
    /\ UNCHANGED <<filenameVars, tmpdir, rib_file, chunks, downloaded, parsed,
                   rib_at_parse, prefixes, asn_dict, sorted_asn_dict, pstage,
                   disk, failed, rstage, decompVars>>

\* line 176: build_asn_to_regex raises (the builder fails, or memory runs out)
BuildRegexFail ==
    /\ pc = "build_regex"
    /\ failed' = "build_regex"
    /\ pc' = "done"
    /\ UNCHANGED <<mainRest, disk>>

\* lines 179-190: the regex artifact
WriteGrexOk ==
    WriteOk("write_regex", GrexPath, "done") /\ UNCHANGED mainRest

WriteGrexOpenFails ==
    OpenFails("write_regex", "write_regex") /\ UNCHANGED mainRest

WriteGrexWriteFails ==
    WriteFails("write_regex", GrexPath, "write_regex") /\ UNCHANGED mainRest

MainNext ==
    \/ BuildUrl \/ EnterTmpdir \/ RequestOk \/ RequestFail \/ OpenRib
    \/ WriteChunk \/ StreamError \/ EndOfStream
    \/ CloseStreamOk \/ CloseStreamFail \/ CloseClientOk \/ CloseClientFail
    \/ ParseOk \/ ParseFail
    \/ ExitTmpdir
    \/ WriteJsonOk \/ WriteJsonOpenFails \/ WriteJsonWriteFails
    \/ WriteZstdOk \/ WriteZstdOpenFails \/ WriteZstdWriteFails
    \/ BuildRegexOk \/ BuildRegexFail
    \/ WriteGrexOk \/ WriteGrexOpenFails \/ WriteGrexWriteFails

SpecMain == MainInit /\ [][MainNext]_vars

Touched(path) == disk[path] \in {"partial", "complete"}

\* C5: a run ends with all output artifacts written in full or none written
C5_AllOrNothing ==
    pc = "done"
        => \/ \A f \in OutputPaths : disk[f] = "complete"
           \/ \A f \in OutputPaths : ~Touched(f)

\* C10: no artifact is opened before download and parse succeeded; the parse
\* runs after the download returned, on the complete RIB file; the regex
\* artifact is written after both prefix artifacts; a failed download or
\* parse leaves every artifact as it was
C10_StepOrder ==
    /\ \A f \in OutputPaths : Touched(f) => downloaded /\ parsed
    /\ rib_at_parse # "none" => downloaded /\ rib_at_parse = "complete"
    /\ parsed => rib_at_parse = "complete"
    /\ Touched(GrexPath) => disk[JsonPath] = "complete" /\ disk[ZstdPath] = "complete"
    /\ (pc = "done" /\ failed \in {"download", "parse"})
          => \A f \in OutputPaths : ~Touched(f)
    /\ tmpdir = (pc \in {"request", "open_rib", "stream", "close_stream",
                          "close_client", "parse", "exit_tmpdir"})

C10_Witness ==
    /\ pc = "done" /\ failed = "write_regex" /\ chunks = MaxChunks
    /\ disk[GrexPath] = "partial"
    /\ disk[JsonPath] = "complete" /\ disk[ZstdPath] = "complete"
    /\ rib_at_parse = "complete" /\ ~tmpdir /\ rib_file = "absent"

=============================================================================
